---- MODULE Spec2Model ----
(***************************************************************************)
(* A model of the e-mail validation scripts eemail.py, part_000 (eeemail   *)
(* 2.py), emailv8.py, emailv12.py and emailv13.py.                         *)
(*                                                                         *)
(* One state machine covers the five scripts; the variable `variant' says  *)
(* which script runs.  A batch (validate_emails) runs one validate_email   *)
(* per input position; every blocking network call of a run (one MX        *)
(* lookup, one SMTP connect, one SMTP command, one backoff sleep) is one   *)
(* step, and the answer of the resolver or of the mail server is chosen    *)
(* by the environment at that step.                                        *)
(***************************************************************************)
EXTENDS Integers, Sequences, FiniteSets, TLC

\* ------------------------------------------------------------------------
\* Bounds of the model
\* ------------------------------------------------------------------------

\* longest batch (email_list) that is enumerated
MaxN == 2

\* largest worker-pool size that is enumerated (pool sizes 1..MaxK)
MaxK == 2

\* ------------------------------------------------------------------------
\* The five scripts
\* ------------------------------------------------------------------------

Sequential == {"eemail", "part_000"}

Pooled == {"emailv8", "emailv12", "emailv13"}

Variants == Sequential \cup Pooled

\* scripts whose SMTP sessions are `with smtplib.SMTP(...) as server:'
UsesWith == {"emailv8", "emailv12", "emailv13"}

\* scripts whose validate_email has a catch-all stage
HasCatchAll == {"eemail", "part_000", "emailv8", "emailv12"}

\* ------------------------------------------------------------------------
\* Characters and strings.  A string is a sequence of one-character strings.
\* ------------------------------------------------------------------------

LowerSeq == <<"a","b","c","d","e","f","g","h","i","j","k","l","m",
              "n","o","p","q","r","s","t","u","v","w","x","y","z">>

UpperSeq == <<"A","B","C","D","E","F","G","H","I","J","K","L","M",
              "N","O","P","Q","R","S","T","U","V","W","X","Y","Z">>

Range(s) == {s[i] : i \in 1..Len(s)}

AlNum == Range(LowerSeq) \cup Range(UpperSeq)
           \cup {"0","1","2","3","4","5","6","7","8","9"}

\* [a-zA-Z0-9_.+-]
LocalClass == AlNum \cup {"_", ".", "+", "-"}

\* [a-zA-Z0-9-]
LabelClass == AlNum \cup {"-"}

\* [a-zA-Z0-9-.]
TailClass == AlNum \cup {"-", "."}

AllIn(s, lo, hi, class) == \A i \in lo..hi : s[i] \in class

\* `$' of a Python regex (no MULTILINE): the end of the string, or the place
\* just before a newline that is the last character.
EndPositions(s) ==
    {Len(s)} \cup (IF Len(s) > 0 /\ s[Len(s)] = "\n" THEN {Len(s) - 1} ELSE {})

\* re.match(r"(^[a-zA-Z0-9_.+-]+@[a-zA-Z0-9-]+\.[a-zA-Z0-9-.]+$)", email)
\* at: the index of the "@", dot: the index of the "." that ends the first
\* label, e: where "$" matches.
check_syntax(email) ==
    \E at \in 2..Len(email), dot \in 4..Len(email), e \in EndPositions(email) :
        /\ at + 1 < dot
        /\ dot < e
        /\ email[at] = "@"
        /\ email[dot] = "."
        /\ AllIn(email, 1, at - 1, LocalClass)
        /\ AllIn(email, at + 1, dot - 1, LabelClass)
        /\ AllIn(email, dot + 1, e, TailClass)

\* the indices of "@" in s
AtPositions(s) == {i \in 1..Len(s) : s[i] = "@"}

Min(S) == CHOOSE x \in S : \A y \in S : x <= y

\* email.split('@')[1]: what lies between the first "@" and the next one
\* (or the end of the string).  Only called on strings holding an "@".
split_at_1(email) ==
    LET first == Min(AtPositions(email))
        later == {i \in AtPositions(email) : i > first}
        stop  == IF later = {} THEN Len(email) ELSE Min(later) - 1
    IN  SubSeq(email, first + 1, stop)

\* str.lower() of one character
lower_char(c) ==
    IF c \in Range(UpperSeq)
    THEN LowerSeq[CHOOSE i \in 1..Len(UpperSeq) : UpperSeq[i] = c]
    ELSE c

\* str.lower()
lower(s) == [i \in 1..Len(s) |-> lower_char(s[i])]

GMAIL_COM == <<"g","m","a","i","l",".","c","o","m">>

\* is_gmail_domain without .lower()
is_gmail_domain_CaseSensitive(domain) == domain = GMAIL_COM

\* domain.lower() == 'gmail.com'
is_gmail_domain(domain) == lower(domain) = GMAIL_COM

\* ------------------------------------------------------------------------
\* The addresses a batch is drawn from
\* ------------------------------------------------------------------------

\* a well-formed address at an ordinary domain: u@x.c
AddrPlain == <<"u","@","x",".","c">>

\* a well-formed address at gmail.com, written with a capital: u@Gmail.com
AddrGmail == <<"u","@","G","m","a","i","l",".","c","o","m">>

\* two "@": u@@x.c
AddrTwoAt == <<"u","@","@","x",".","c">>

\* accepted by check_syntax, with an empty label in the domain: u@x..c
AddrEmptyLabel == <<"u","@","x",".",".","c">>

Addresses == {AddrPlain, AddrGmail, AddrTwoAt, AddrEmptyLabel}

\* ------------------------------------------------------------------------
\* What the environment can answer
\* ------------------------------------------------------------------------

\* dns.resolver.resolve(domain, 'MX'): an answer (a non-empty record set; an
\* empty one is raised as NoAnswer), dns.resolver.NoAnswer,
\* dns.resolver.NXDOMAIN, dns.exception.Timeout, or any other exception of
\* the resolution (NoNameservers, ...).
DnsOutcomes == {"answer", "NoAnswer", "NXDOMAIN", "Timeout", "other"}

\* a name with an empty label (a leading dot, two dots in a row) is not a
\* domain name; one final dot is the root label
HasEmptyLabel(domain) ==
    /\ Len(domain) > 1
    /\ \/ domain[1] = "."
       \/ \E i \in 1..(Len(domain) - 1) : domain[i] = "." /\ domain[i + 1] = "."

\* resolve() turns the string into a name before it asks anything, and
\* raises dns.name.EmptyLabel for a name that has an empty label
resolve(domain) ==
    IF HasEmptyLabel(domain) THEN {"EmptyLabel"} ELSE DnsOutcomes

Negative == {"NoAnswer", "NXDOMAIN"}

\* the MX records a domain can have: (preference, exchange)
MxLow == [preference |-> 10, exchange |-> "mx1"]

MxHigh == [preference |-> 20, exchange |-> "mx2"]

\* the record sets an answer can hold, in the order the resolver gives them
MxAnswers == {<<MxLow>>, <<MxLow, MxHigh>>, <<MxHigh, MxLow>>}

\* what comes with the outcome o of a lookup: the records of an answer
RecordsOf(o) == IF o = "answer" THEN MxAnswers ELSE {<<>>}

\* the marker of "no reply code": the command raised instead of returning
NoReply == 0

\* smtplib.SMTP(host): connects and reads the 220 greeting, or raises
ConnectOutcomes == {"ok", "refused", "timeout"}

\* the reply to EHLO/HELO: accepted, rejected, or the connection is lost
HeloReplies == {250, 550, NoReply}

\* the reply to MAIL FROM
MailReplies == {250, 550, NoReply}

\* the reply to RCPT TO
RcptReplies == {250, 251, 450, 550, NoReply}

\* the reply to QUIT
QuitReplies == {221, 500, NoReply}

\* ------------------------------------------------------------------------
\* Program constants
\* ------------------------------------------------------------------------

\* retry_connection: retries = 3
retries == 3

\* part_000: max_retries = 3
max_retries == 3

\* emailv8.py: ThreadPoolExecutor(max_workers=10)
max_workers_v8 == 10

\* emailv12.py: ThreadPoolExecutor(max_workers=50)
max_workers_v12 == 50

\* emailv13.py: ThreadPoolExecutor(max_workers=50)
max_workers_v13 == 50

\* the pool size each pooled script is written with
PoolSize(v) ==
    CASE v = "emailv8"  -> max_workers_v8
      [] v = "emailv12" -> max_workers_v12
      [] v = "emailv13" -> max_workers_v13

\* ------------------------------------------------------------------------
\* State
\* ------------------------------------------------------------------------

VARIABLES
    variant,      \* which script runs
    email_list,   \* the argument of validate_emails
    max_workers,  \* the size of the worker pool
    tasks,        \* one validate_email run per input position
    results,      \* the list validate_emails accumulates
    progress,     \* the N of every "Processed: N/M" printed so far
    bpc           \* where validate_emails is

vars == <<variant, email_list, max_workers, tasks, results, progress, bpc>>

N == Len(email_list)

Positions == 1..N

\* A run that has not been called yet.
\*   pc       unsubmitted | queued | syntax | lookup | connect | helo | mail |
\*            rcpt | quit | sleep | ret | done | raised
\*   stage    the stage function being executed: none | mx | conn | ca
\*   attempt  retry_count (part_000) / attempt (retry_connection)
\*   result   what the stage function returned (read at pc = "ret")
\*   code     the local `code' of the stage function (the RCPT reply)
\*   mx_records, mx_record  the locals of check_connection and
\*            check_catch_all: the answer and the exchange name taken from it
\*   ret      what validate_email returned: <<first, status>>
\*   worker   the pool thread that runs it (0: none)
\* and, kept beside the program's own state to state properties:
\*   dns      the outcome of the last lookup of this invocation
\*   helo, mail  the replies to EHLO/HELO and MAIL FROM of this invocation
\*   fault    where this invocation was left by an exception
\*   sess     the SMTP session of this invocation: none | open | closed |
\*            dropped (lost while a command was waiting for its reply:
\*            smtplib closes the socket before it raises)
\*   lookups, sessions  lookups made / sessions started by this stage call
\*   looked, connected  whether the run made any lookup / started any session
\*   trace    the stages started, in order
\*   calls    one entry per stage that returned, in order: the value it
\*            returned with dns, fault, code and mail as they were then
InitTask ==
    [pc |-> "unsubmitted", stage |-> "none", attempt |-> 0, result |-> FALSE,
     code |-> NoReply, mx_records |-> <<>>, mx_record |-> "none",
     ret |-> <<>>, worker |-> 0, collected |-> FALSE,
     dns |-> "none", helo |-> NoReply, mail |-> NoReply, fault |-> "none",
     sess |-> "none", lookups |-> 0, sessions |-> 0,
     looked |-> FALSE, connected |-> FALSE, trace |-> <<>>, calls |-> <<>>]

Finished(tk) == tk.pc \in {"done", "raised"}

Running(tk) == tk.pc \notin {"unsubmitted", "queued", "done", "raised"}

SeqsUpTo(S, n) == UNION {[1..k -> S] : k \in 1..n}

Init ==
    /\ variant \in Variants
    /\ email_list \in SeqsUpTo(Addresses, MaxN)
    /\ max_workers \in IF variant \in Sequential
                        THEN {1}
                        ELSE (1..MaxK) \cup {PoolSize(variant)}
    /\ tasks = [i \in 1..Len(email_list) |-> InitTask]
    /\ results = <<>>
    /\ progress = <<>>
    /\ bpc = IF variant \in Sequential THEN "loop" ELSE "submit"

\* ------------------------------------------------------------------------
\* check_mail_server: what one lookup's outcome makes the function body do.
\*   "True" / "False": it returns that; "Timeout": the except Timeout branch
\*   of the loop of part_000; "Raise": the exception leaves the function.
\* ------------------------------------------------------------------------

check_mail_server_eemail(o) ==
    CASE o = "answer"   -> "True"
      [] o \in Negative -> "False"
      [] OTHER          -> "Raise"

check_mail_server_part_000(o) ==
    CASE o = "answer"   -> "True"
      [] o \in Negative -> "False"
      [] o = "Timeout"  -> "Timeout"
      [] OTHER          -> "Raise"

\* check_mail_server of emailv8.py returning True from its first except
\* clause
check_mail_server_v8_NegativeTrue(o) ==
    CASE o = "answer"   -> "True"
      [] o \in Negative -> "True"
      [] o = "Timeout"  -> "False"
      [] OTHER          -> "Raise"

check_mail_server_v8(o) ==
    CASE o = "answer"   -> "True"
      [] o \in Negative -> "False"
      [] o = "Timeout"  -> "False"
      [] OTHER          -> "Raise"

check_mail_server_v12(o) ==
    CASE o = "answer"                         -> "True"
      [] o \in Negative \cup {"Timeout"}      -> "False"
      [] OTHER                                -> "False"

check_mail_server_v13(o) ==
    IF o = "answer" THEN "True" ELSE "False"

check_mail_server(v, o) ==
    CASE v = "eemail"   -> check_mail_server_eemail(o)
      [] v = "part_000" -> check_mail_server_part_000(o)
      [] v = "emailv8"  -> check_mail_server_v8(o)
      [] v = "emailv12" -> check_mail_server_v12(o)
      [] v = "emailv13" -> check_mail_server_v13(o)

\* retry_connection testing attempt == retries
retry_connection_OffByOne(result, attempt) ==
    IF result \/ attempt = retries THEN "return" ELSE "sleep"

\* retry_connection's wrapper, after func returned `result' at `attempt':
\*   if result or attempt == retries - 1: return result
\*   sleep(2 ** attempt)
retry_connection(result, attempt) ==
    IF result \/ attempt = retries - 1 THEN "return" ELSE "sleep"

\* the stage functions that carry @retry_connection
Wrapped(v, stage) == v = "emailv13" /\ stage \in {"mx", "conn"}

\* the stage functions that are a `while retry_count < max_retries' loop
Looped(v, stage) == v = "part_000" /\ stage \in {"mx", "ca"}

\* The body of the stage function returned r.
AfterFunc(v, tk, r) ==
    IF Wrapped(v, tk.stage) /\ retry_connection(r, tk.attempt) = "sleep"
    THEN [tk EXCEPT !.pc = "sleep", !.result = r]
    ELSE [tk EXCEPT !.pc = "ret", !.result = r]

\* An exception reached the `except Exception' of check_connection or
\* check_catch_all at `where'; the session is left as `sess'.
Caught(v, tk, where, sess) ==
    AfterFunc(v, [tk EXCEPT !.fault = where, !.sess = sess], FALSE)

\* except Timeout of the loops of part_000: retry_count += 1, and the loop
\* ends (return False) once retry_count reaches max_retries.
LoopTimeout(tk) ==
    IF tk.attempt + 1 < max_retries
    THEN [tk EXCEPT !.attempt = @ + 1, !.pc = "lookup"]
    ELSE [tk EXCEPT !.attempt = @ + 1, !.pc = "ret", !.result = FALSE]

\* the session after an exception inside it: the with block closes it; the
\* scripts that call quit() themselves never reach their quit(), and the
\* socket is the one smtplib closed when the command failed
SessionAfterError(v) == IF v \in UsesWith THEN "closed" ELSE "dropped"

\* One dns.resolver.resolve(domain, 'MX') with outcome o and, for an answer,
\* the records mx_records; mx_record = str(mx_records[0].exchange).
LookupStep(v, tk, o, mx_records) ==
    LET t1 == [tk EXCEPT !.dns = o, !.lookups = @ + 1, !.looked = TRUE]
    IN  IF tk.stage = "mx"
        THEN LET h == check_mail_server(v, o)
             IN  CASE h = "Raise"   -> [t1 EXCEPT !.pc = "raised"]
                   [] h = "Timeout" -> LoopTimeout(t1)
                   [] OTHER         -> AfterFunc(v, t1, h = "True")
        ELSE CASE o = "answer" ->
                      [t1 EXCEPT !.pc = "connect", !.mx_records = mx_records,
                                 !.mx_record = mx_records[1].exchange]
               [] o = "Timeout" /\ Looped(v, tk.stage) -> LoopTimeout(t1)
               [] OTHER -> Caught(v, t1, "lookup", "none")

\* smtplib.SMTP(mx_record): one connection attempt with outcome o.
ConnectStep(v, tk, o) ==
    LET t1 == [tk EXCEPT !.sessions = @ + 1, !.connected = TRUE]
    IN  IF o = "ok"
        THEN [t1 EXCEPT !.pc = "helo", !.sess = "open"]
        ELSE Caught(v, t1, "connect", "none")

\* check_connection sends MAIL FROM and RCPT TO only in emailv12 and emailv13
ProbesRecipient(v, stage) == stage = "ca" \/ v \in {"emailv12", "emailv13"}

\* check_connection of eemail.py returning after the greeting without its
\* server.quit()
HeloStep_NoQuit(v, tk, reply) ==
    LET t1 == [tk EXCEPT !.helo = reply]
    IN  IF reply = NoReply \/ (v \in UsesWith /\ reply # 250)
        THEN Caught(v, t1, "helo", SessionAfterError(v))
        ELSE IF ProbesRecipient(v, tk.stage)
             THEN [t1 EXCEPT !.pc = "mail"]
             ELSE AfterFunc(v, t1, TRUE)

\* server.ehlo_or_helo_if_needed() raises on a reply that is not 2xx;
\* server.helo() returns the reply whatever it is.
HeloStep(v, tk, reply) ==
    LET t1 == [tk EXCEPT !.helo = reply]
    IN  IF reply = NoReply \/ (v \in UsesWith /\ reply # 250)
        THEN Caught(v, t1, "helo", SessionAfterError(v))
        ELSE [t1 EXCEPT !.pc = IF ProbesRecipient(v, tk.stage)
                               THEN "mail" ELSE "quit"]

\* server.mail(sender): the reply is returned and not looked at.
MailStep(v, tk, reply) ==
    LET t1 == [tk EXCEPT !.mail = reply]
    IN  IF reply = NoReply
        THEN Caught(v, t1, "mail", SessionAfterError(v))
        ELSE [t1 EXCEPT !.pc = "rcpt"]

\* code, message = server.rcpt(recipient)
RcptStep(v, tk, reply) ==
    IF reply = NoReply
    THEN Caught(v, tk, "rcpt", SessionAfterError(v))
    ELSE [tk EXCEPT !.code = reply, !.pc = "quit"]

\* check_connection of emailv13.py testing code == 250
check_connection_value_Only250(v, code) ==
    CASE v = "emailv12" -> code = 250
      [] v = "emailv13" -> code = 250
      [] OTHER          -> TRUE

\* what check_connection returns once its session has ended normally
check_connection_value(v, code) ==
    CASE v = "emailv12" -> code = 250
      [] v = "emailv13" -> code \in {250, 251}
      [] OTHER          -> TRUE

\* check_catch_all with the gmail test applied to every domain
check_catch_all_value_AllGmail(v, domain, code) ==
    IF v # "emailv12" THEN code # 550 ELSE code = 250

\* what check_catch_all returns once its session has ended normally
check_catch_all_value(v, domain, code) ==
    IF v # "emailv12" /\ is_gmail_domain(domain)
    THEN code # 550
    ELSE code = 250

\* The end of the session: server.quit(), or the exit of the with block
\* (QUIT; a reply other than 221 raises SMTPResponseException, a lost
\* connection is passed over; the socket is closed either way).
QuitStep(v, email, tk, reply) ==
    LET raises == IF v \in UsesWith THEN reply \notin {221, NoReply}
                                    ELSE reply = NoReply
        value  == IF tk.stage = "conn"
                  THEN check_connection_value(v, tk.code)
                  ELSE check_catch_all_value(v, split_at_1(email), tk.code)
    IN  IF raises
        THEN Caught(v, tk, "quit", "closed")
        ELSE AfterFunc(v, [tk EXCEPT !.sess = "closed"], value)

\* sleep(2 ** attempt), then the next round of the wrapper's loop calls func
SleepStep(tk) ==
    [tk EXCEPT !.pc = "lookup", !.attempt = @ + 1, !.code = NoReply,
               !.mx_records = <<>>, !.mx_record = "none",
               !.dns = "none", !.helo = NoReply, !.mail = NoReply,
               !.fault = "none", !.sess = "none", !.result = FALSE]

\* ------------------------------------------------------------------------
\* validate_email: what it does with the value r of the stage it just ran.
\*   [next |-> a stage] : it calls that stage function
\*   [next |-> "return"]: it returns, with `status'
\* ------------------------------------------------------------------------

Go(stage) == [next |-> stage, status |-> "none"]

Return(status) == [next |-> "return", status |-> status]

\* the status of an address that passed every check
ValidStatus(v) == IF v \in Sequential THEN "Email is valid" ELSE "Valid"

\* validate_email of emailv8.py with the `return' of the connection check
\* lost: a failed check_connection falls through to the catch-all check
validate_email_v8_FallsThrough(stage, r, valid) ==
    CASE stage = "syntax" -> IF ~r THEN Return("Invalid syntax") ELSE Go("mx")
      [] stage = "mx"     -> IF ~r THEN Return("No MX records found")
                                   ELSE Go("conn")
      [] stage = "conn"   -> Go("ca")
      [] stage = "ca"     -> IF r THEN Return("Domain has catch-all enabled")
                                  ELSE Return(valid)

\* validate_email of emailv8.py with the test of check_catch_all negated
validate_email_v8_CatchAllNegated(stage, r, valid) ==
    CASE stage = "syntax" -> IF ~r THEN Return("Invalid syntax") ELSE Go("mx")
      [] stage = "mx"     -> IF ~r THEN Return("No MX records found")
                                   ELSE Go("conn")
      [] stage = "conn"   -> IF ~r THEN Return("Cannot connect to mail server")
                                   ELSE Go("ca")
      [] stage = "ca"     -> IF ~r THEN Return("Domain has catch-all enabled")
                                   ELSE Return(valid)

\* emailv8.py, and with "Email is valid" eemail.py and part_000
validate_email_v8(stage, r, valid) ==
    CASE stage = "syntax" -> IF ~r THEN Return("Invalid syntax") ELSE Go("mx")
      [] stage = "mx"     -> IF ~r THEN Return("No MX records found")
                                   ELSE Go("conn")
      [] stage = "conn"   -> IF ~r THEN Return("Cannot connect to mail server")
                                   ELSE Go("ca")
      [] stage = "ca"     -> IF r THEN Return("Domain has catch-all enabled")
                                  ELSE Return(valid)

validate_email_v12(stage, r) ==
    CASE stage = "syntax" -> IF ~r THEN Return("Invalid syntax") ELSE Go("mx")
      [] stage = "mx"     -> IF ~r THEN Return("No MX records found")
                                   ELSE Go("ca")
      [] stage = "ca"     -> IF r THEN Return("Valid") ELSE Go("conn")
      [] stage = "conn"   -> IF ~r THEN Return("Cannot connect to mail server")
                                   ELSE Return("Valid")

\* validate_email of emailv13.py without the syntax gate
validate_email_v13_NoSyntaxGate(stage, r) ==
    CASE stage = "syntax" -> Go("mx")
      [] stage = "mx"     -> IF ~r THEN Return("No MX records found")
                                   ELSE Go("conn")
      [] stage = "conn"   -> IF ~r THEN Return("Cannot connect to mail server")
                                   ELSE Return("Valid")

validate_email_v13(stage, r) ==
    CASE stage = "syntax" -> IF ~r THEN Return("Invalid syntax") ELSE Go("mx")
      [] stage = "mx"     -> IF ~r THEN Return("No MX records found")
                                   ELSE Go("conn")
      [] stage = "conn"   -> IF ~r THEN Return("Cannot connect to mail server")
                                   ELSE Return("Valid")

validate_email(v, stage, r) ==
    CASE v = "emailv12" -> validate_email_v12(stage, r)
      [] v = "emailv13" -> validate_email_v13(stage, r)
      [] OTHER          -> validate_email_v8(stage, r, ValidStatus(v))

\* the tuple validate_email returns: (email, status) in the pooled scripts,
\* (is_valid, message) in the sequential ones
ReturnTuple(v, email, status) ==
    IF v \in Sequential THEN <<status = ValidStatus(v), status>>
                        ELSE <<email, status>>

\* the call of a stage function: its locals start afresh
EnterStage(tk, stage) ==
    [tk EXCEPT !.pc = "lookup", !.stage = stage, !.attempt = 0,
               !.result = FALSE, !.code = NoReply, !.dns = "none",
               !.mx_records = <<>>, !.mx_record = "none",
               !.helo = NoReply, !.mail = NoReply, !.fault = "none",
               !.sess = "none", !.lookups = 0, !.sessions = 0,
               !.trace = Append(@, stage)]

\* validate_email returns `status'
Finish(v, email, tk, status) ==
    [tk EXCEPT !.pc = "done", !.stage = "none", !.attempt = 0,
               !.result = FALSE, !.code = NoReply, !.dns = "none",
               !.mx_records = <<>>, !.mx_record = "none",
               !.helo = NoReply, !.mail = NoReply, !.fault = "none",
               !.sess = "none", !.lookups = 0, !.sessions = 0,
               !.ret = ReturnTuple(v, email, status)]

\* validate_email goes on after the stage `stage' gave r
Branch(v, email, tk, stage, r) ==
    LET d  == validate_email(v, stage, r)
        t1 == [tk EXCEPT !.calls = Append(@,
                  [stage |-> stage, value |-> r, dns |-> tk.dns,
                   fault |-> tk.fault, code |-> tk.code, mail |-> tk.mail])]
    IN  IF d.next = "return" THEN Finish(v, email, t1, d.status)
                             ELSE EnterStage(t1, d.next)

\* a run that ended gives its pool thread back
Release(tk) == IF Finished(tk) THEN [tk EXCEPT !.worker = 0] ELSE tk

\* ------------------------------------------------------------------------
\* The steps of one validate_email run
\* ------------------------------------------------------------------------

\* the stage functions keeping `code' in a module-level variable that every
\* run reads and writes
Step_CodeIsGlobal(t, new) ==
    tasks' = [u \in Positions |->
                 IF u = t THEN Release(new)
                          ELSE [tasks[u] EXCEPT !.code = new.code]]

Step(t, new) == tasks' = [tasks EXCEPT ![t] = Release(new)]

Frame == UNCHANGED <<variant, email_list, max_workers, results, progress, bpc>>

\* if not check_syntax(email): return ...; domain = email.split('@')[1]
Syntax(t) ==
    /\ tasks[t].pc = "syntax"
    /\ Step(t, Branch(variant, email_list[t],
                      [tasks[t] EXCEPT !.trace = Append(@, "syntax")],
                      "syntax", check_syntax(email_list[t])))
    /\ Frame

Lookup(t) ==
    /\ tasks[t].pc = "lookup"
    /\ \E o \in resolve(split_at_1(email_list[t])) :
          \E mx_records \in RecordsOf(o) :
              Step(t, LookupStep(variant, tasks[t], o, mx_records))
    /\ Frame

Connect(t) ==
    /\ tasks[t].pc = "connect"
    /\ \E o \in ConnectOutcomes : Step(t, ConnectStep(variant, tasks[t], o))
    /\ Frame

Helo(t) ==
    /\ tasks[t].pc = "helo"
    /\ \E reply \in HeloReplies : Step(t, HeloStep(variant, tasks[t], reply))
    /\ Frame

Mail(t) ==
    /\ tasks[t].pc = "mail"
    /\ \E reply \in MailReplies : Step(t, MailStep(variant, tasks[t], reply))
    /\ Frame

Rcpt(t) ==
    /\ tasks[t].pc = "rcpt"
    /\ \E reply \in RcptReplies : Step(t, RcptStep(variant, tasks[t], reply))
    /\ Frame

Quit(t) ==
    /\ tasks[t].pc = "quit"
    /\ \E reply \in QuitReplies :
          Step(t, QuitStep(variant, email_list[t], tasks[t], reply))
    /\ Frame

Sleep(t) ==
    /\ tasks[t].pc = "sleep"
    /\ Step(t, SleepStep(tasks[t]))
    /\ Frame

\* the stage function has returned: validate_email tests its value
Ret(t) ==
    /\ tasks[t].pc = "ret"
    /\ Step(t, Branch(variant, email_list[t], tasks[t],
                      tasks[t].stage, tasks[t].result))
    /\ Frame

\* ------------------------------------------------------------------------
\* validate_emails on a ThreadPoolExecutor (emailv8, emailv12, emailv13)
\* ------------------------------------------------------------------------

TaskFrame == UNCHANGED <<variant, email_list, max_workers>>

IdleWorkers == {w \in 1..max_workers : \A t \in Positions : tasks[t].worker # w}

Collected == {t \in Positions : tasks[t].collected}

\* executor.submit(validate_email, email), for the emails in list order
Submit(t) ==
    /\ bpc = "submit"
    /\ tasks[t].pc = "unsubmitted"
    /\ \A j \in 1..(t - 1) : tasks[j].pc # "unsubmitted"
    /\ tasks' = [tasks EXCEPT ![t].pc = "queued"]
    /\ bpc' = IF t = N THEN "collect" ELSE "submit"
    /\ UNCHANGED <<results, progress>>
    /\ TaskFrame

\* a pool that starts one more thread when none of its threads is idle
Start_SpawnsWhenBusy(t) ==
    /\ variant \in Pooled
    /\ tasks[t].pc = "queued"
    /\ \A j \in 1..(t - 1) : tasks[j].pc # "queued"
    /\ tasks' = [tasks EXCEPT ![t].pc = "syntax",
                              ![t].worker = IF IdleWorkers # {}
                                            THEN Min(IdleWorkers)
                                            ELSE max_workers + t]
    /\ UNCHANGED <<results, progress, bpc>>
    /\ TaskFrame

\* an idle pool thread takes the oldest work item and calls validate_email
Start(t) ==
    /\ variant \in Pooled
    /\ tasks[t].pc = "queued"
    /\ \A j \in 1..(t - 1) : tasks[j].pc # "queued"
    /\ IdleWorkers # {}
    /\ tasks' = [tasks EXCEPT ![t].pc = "syntax", ![t].worker = Min(IdleWorkers)]
    /\ UNCHANGED <<results, progress, bpc>>
    /\ TaskFrame

\* the N printed after an outcome is appended: len(results) in emailv8 and
\* emailv12, i + 1 for the index i of enumerate(as_completed(...)) in emailv13
Processed(v, res, i) == IF v = "emailv13" THEN i + 1 ELSE Len(res)

\* for future in as_completed(futures): results.append(future.result());
\* print(...).  future.result() raises what validate_email raised.
Collect(t) ==
    /\ bpc = "collect"
    /\ Finished(tasks[t])
    /\ ~tasks[t].collected
    /\ tasks' = [tasks EXCEPT ![t].collected = TRUE]
    /\ IF tasks[t].pc = "done"
       THEN /\ results' = Append(results, tasks[t].ret)
            /\ progress' = Append(progress,
                   Processed(variant, results', Cardinality(Collected)))
            /\ bpc' = bpc
       ELSE /\ bpc' = "unwinding"
            /\ UNCHANGED <<results, progress>>
    /\ TaskFrame

\* every future was yielded: the with block ends and results is returned
ReturnResults ==
    /\ bpc = "collect"
    /\ Collected = Positions
    /\ bpc' = "returned"
    /\ UNCHANGED <<tasks, results, progress>>
    /\ TaskFrame

\* the exception of future.result() leaves the with block, whose exit waits
\* for the runs still pending (shutdown(wait=True)), and then validate_emails
Unwound ==
    /\ bpc = "unwinding"
    /\ \A t \in Positions : Finished(tasks[t])
    /\ bpc' = "raised"
    /\ UNCHANGED <<tasks, results, progress>>
    /\ TaskFrame

\* ------------------------------------------------------------------------
\* validate_emails as a loop (eemail, part_000)
\* ------------------------------------------------------------------------

\* for email in email_list: is_valid, message = validate_email(email)
SeqCall(t) ==
    /\ bpc = "loop"
    /\ tasks[t].pc = "unsubmitted"
    /\ \A j \in 1..(t - 1) : tasks[j].collected
    /\ tasks' = [tasks EXCEPT ![t].pc = "syntax"]
    /\ UNCHANGED <<results, progress, bpc>>
    /\ TaskFrame

\* the loop body after the call: the address and its message are printed
\* (eemail) or appended to valid_emails / invalid_emails (part_000)
SeqCollect(t) ==
    /\ bpc = "loop"
    /\ tasks[t].pc = "done"
    /\ ~tasks[t].collected
    /\ tasks' = [tasks EXCEPT ![t].collected = TRUE]
    /\ results' = Append(results, <<email_list[t], tasks[t].ret[2]>>)
    /\ bpc' = IF t = N THEN "returned" ELSE "loop"
    /\ UNCHANGED progress
    /\ TaskFrame

\* an exception of validate_email leaves the loop and validate_emails
SeqRaise(t) ==
    /\ bpc = "loop"
    /\ tasks[t].pc = "raised"
    /\ bpc' = "raised"
    /\ UNCHANGED <<tasks, results, progress>>
    /\ TaskFrame

\* ------------------------------------------------------------------------
\* One validate_email run as a whole
\* ------------------------------------------------------------------------

\* the states one step of the run leads to, over every answer of the
\* environment
Successors(v, email, tk) ==
    CASE tk.pc = "syntax" ->
            {Branch(v, email, [tk EXCEPT !.trace = Append(@, "syntax")],
                    "syntax", check_syntax(email))}
      [] tk.pc = "lookup"  ->
            UNION {{LookupStep(v, tk, o, mx_records) :
                       mx_records \in RecordsOf(o)} :
                   o \in resolve(split_at_1(email))}
      [] tk.pc = "connect" -> {ConnectStep(v, tk, o) : o \in ConnectOutcomes}
      [] tk.pc = "helo"    -> {HeloStep(v, tk, r) : r \in HeloReplies}
      [] tk.pc = "mail"    -> {MailStep(v, tk, r) : r \in MailReplies}
      [] tk.pc = "rcpt"    -> {RcptStep(v, tk, r) : r \in RcptReplies}
      [] tk.pc = "quit"    -> {QuitStep(v, email, tk, r) : r \in QuitReplies}
      [] tk.pc = "sleep"   -> {SleepStep(tk)}
      [] tk.pc = "ret"     -> {Branch(v, email, tk, tk.stage, tk.result)}
      [] OTHER             -> {}

RECURSIVE Reach(_, _, _, _)
Reach(v, email, frontier, seen) ==
    IF frontier = {} THEN seen
    ELSE LET new == UNION {Successors(v, email, tk) : tk \in frontier} \ seen
         IN  Reach(v, email, new, seen \cup new)

\* every way a run of validate_email(email) can end: what it returned or
\* that it raised, the stages it started and whether it touched the network
RunEnds(v, email) ==
    LET start == [InitTask EXCEPT !.pc = "syntax"]
    IN  {[tk EXCEPT !.calls = <<>>, !.dns = "none"] :
            tk \in {x \in Reach(v, email, {start}, {start}) : Finished(x)}}

RunEndsOf == [v \in Variants |-> [a \in Addresses |-> RunEnds(v, a)]]

\* a pool thread (or the loop) runs validate_email from its call to its end
Run(t) ==
    /\ tasks[t].pc = "syntax"
    /\ \E end \in RunEndsOf[variant][email_list[t]] :
          tasks' = [tasks EXCEPT ![t] = [end EXCEPT !.collected = tasks[t].collected]]
    /\ Frame

\* ------------------------------------------------------------------------
\* The specifications
\* ------------------------------------------------------------------------

\* validate_emails on one address, every network call of its run a step
InitCall ==
    /\ Init
    /\ Len(email_list) = 1

Next ==
    \/ \E t \in Positions :
          \/ Submit(t)
          \/ Start(t)
          \/ SeqCall(t)
          \/ Syntax(t)
          \/ Lookup(t)
          \/ Connect(t)
          \/ Helo(t)
          \/ Mail(t)
          \/ Rcpt(t)
          \/ Quit(t)
          \/ Sleep(t)
          \/ Ret(t)
          \/ Collect(t)
          \/ SeqCollect(t)
          \/ SeqRaise(t)
    \/ ReturnResults
    \/ Unwound

Spec == InitCall /\ [][Next]_vars

\* Spec when no call blocks for ever: every lookup and every SMTP operation
\* returns or raises, a sleep ends, and a thread that can go on does
FairSpec == Spec /\ WF_vars(Next)

\* validate_emails on two addresses, every network call of either run a
\* step: the two runs of a pooled script interleave in every way.  The pool
\* has the size the script gives it.  The pairs are two addresses of one
\* domain, two of different domains, and a good address beside one whose
\* run raises or is rejected.  emailv12.py, whose runs are the longest, is
\* left to the other two specifications.
PairLists(v) ==
    IF v = "emailv13"
    THEN {<<AddrPlain, AddrPlain>>}
    ELSE {<<AddrPlain, AddrPlain>>, <<AddrPlain, AddrGmail>>,
          <<AddrPlain, AddrEmptyLabel>>, <<AddrEmptyLabel, AddrPlain>>,
          <<AddrTwoAt, AddrPlain>>}

InitPair ==
    /\ Init
    /\ variant # "emailv12"
    /\ email_list \in PairLists(variant)
    /\ variant \in Pooled => max_workers = PoolSize(variant)

PairSpec == InitPair /\ [][Next]_vars

\* validate_emails on a batch, every run a step of its own
NextBatch ==
    \/ \E t \in Positions :
          \/ Submit(t)
          \/ Start(t)
          \/ SeqCall(t)
          \/ Run(t)
          \/ Collect(t)
          \/ SeqCollect(t)
          \/ SeqRaise(t)
    \/ ReturnResults
    \/ Unwound

BatchSpec == Init /\ [][NextBatch]_vars

\* ------------------------------------------------------------------------
\* Properties
\* ------------------------------------------------------------------------

Statuses ==
    {"Invalid syntax", "No MX records found", "Cannot connect to mail server",
     "Domain has catch-all enabled", "Valid"}

\* some step of the run at position t
RunStep(t) ==
    \/ Syntax(t) \/ Lookup(t) \/ Connect(t) \/ Helo(t) \/ Mail(t)
    \/ Rcpt(t) \/ Quit(t) \/ Sleep(t) \/ Ret(t)

\* the failures of a resolution that are none of an answer, a negative
\* answer or a timeout
UnlistedDns == {"other"}

\* C1: in the pooled scripts (emailv8, emailv12, emailv13) a run of
\* validate_email holds no outcome until it ends, ends with exactly one pair
\* (address, status) whose address is the input string and whose status is
\* one of the five values, can always take its next step until then, and
\* never ends without an outcome (by an exception) when its MX lookups got
\* an answer, a negative answer or a timeout, or were never sent.
C1_ExactlyOneOutcome ==
    variant \in Pooled =>
        \A t \in Positions :
            LET tk == tasks[t]
            IN  /\ tk.pc = "done" => /\ Len(tk.ret) = 2
                                     /\ tk.ret[1] = email_list[t]
                                     /\ tk.ret[2] \in Statuses
                /\ tk.pc # "done" => tk.ret = <<>>
                /\ tk.pc = "raised" => tk.dns \in UnlistedDns
                /\ Running(tk) => ENABLED RunStep(t)

\* the scripts whose validate_email has the four stages of emailv8.py
FourStages == {"eemail", "part_000", "emailv8"}

StageOrder == <<"syntax", "mx", "conn", "ca">>

IsPrefix(s, r) == Len(s) <= Len(r) /\ \A i \in 1..Len(s) : s[i] = r[i]

\* a stage passes when its function returns True; the catch-all stage
\* passes when check_catch_all returns False
Passes(c) == IF c.stage = "ca" THEN ~c.value ELSE c.value

FailStatus(stage) ==
    CASE stage = "syntax" -> "Invalid syntax"
      [] stage = "mx"     -> "No MX records found"
      [] stage = "conn"   -> "Cannot connect to mail server"
      [] stage = "ca"     -> "Domain has catch-all enabled"

\* C2: in emailv8.py, eemail.py and part_000 the stages of a run start in
\* the order syntax, MX lookup, connection probe, catch-all probe; a stage
\* starts only after every stage before it passed; the status returned is
\* that of the one stage that did not pass, and the valid status is returned
\* only after all four stages passed.
C2_StagesInOrder ==
    variant \in FourStages =>
        \A t \in Positions :
            LET tk == tasks[t]
                tr == tk.trace
                cs == tk.calls
            IN  /\ IsPrefix(tr, StageOrder)
                /\ Len(cs) <= Len(tr)
                /\ Len(tr) <= Len(cs) + 1
                /\ \A i \in 1..Len(cs) : cs[i].stage = tr[i]
                /\ Len(cs) > 0 => cs[1].value = check_syntax(email_list[t])
                /\ \A i \in 1..Len(cs) : i < Len(tr) => Passes(cs[i])
                /\ tk.pc = "done" =>
                      /\ Len(cs) = Len(tr)
                      /\ IF Passes(cs[Len(cs)])
                         THEN /\ Len(cs) = Len(StageOrder)
                              /\ tk.ret[2] = ValidStatus(variant)
                         ELSE tk.ret[2] = FailStatus(cs[Len(cs)].stage)

\* a run of emailv8.py that passed three stages and failed the fourth
C2_Witness ==
    \E t \in Positions :
        /\ variant = "emailv8"
        /\ tasks[t].pc = "done"
        /\ tasks[t].trace = StageOrder
        /\ tasks[t].ret[2] = "Domain has catch-all enabled"

Count(seq, a) == Cardinality({i \in 1..Len(seq) : seq[i] = a})

\* the addresses of the outcomes in a list of results
AddressesOf(res) == [i \in 1..Len(res) |-> res[i][1]]

\* C3: in the pooled scripts, for every pool size and every order in which
\* the runs end and are collected, a call of validate_emails ends by
\* returning a list of exactly N outcomes whose addresses are, as a
\* multiset, the input list.
C3_OneOutcomePerAddress ==
    (variant \in Pooled /\ bpc \in {"returned", "raised"}) =>
        /\ bpc = "returned"
        /\ Len(results) = N
        /\ \A a \in Addresses :
              Count(AddressesOf(results), a) = Count(email_list, a)

\* C4: a run whose address check_syntax rejects never makes an MX lookup,
\* never starts an SMTP session, starts no stage after the syntax check,
\* never raises, and returns Invalid syntax; in every script and whatever
\* the other runs of the batch do.
C4_RejectedTouchesNoNetwork ==
    \A t \in Positions :
        ~check_syntax(email_list[t]) =>
            /\ ~tasks[t].looked
            /\ ~tasks[t].connected
            /\ IsPrefix(tasks[t].trace, <<"syntax">>)
            /\ tasks[t].pc # "raised"
            /\ tasks[t].pc = "done" => tasks[t].ret[2] = "Invalid syntax"

\* a rejected address has its outcome while another run of the batch, which
\* has used the network, is done and a third thing, the collection, goes on
C4_Witness ==
    \E t, u \in Positions :
        /\ ~check_syntax(email_list[t])
        /\ tasks[t].pc = "done"
        /\ tasks[t].ret[2] = "Invalid syntax"
        /\ variant \in Pooled
        /\ tasks[u].connected
        /\ bpc = "collect"

\* C5: in the scripts other than emailv13.py, a negative answer to the
\* lookup of check_mail_server makes it return False at once, the run then
\* ends with No MX records found and has never started an SMTP session; a
\* run whose check_mail_server got an answer never ends with No MX records
\* found, and one whose check_connection could not connect ends with Cannot
\* connect to mail server.
C5_NoMxOrNoConnection ==
    variant # "emailv13" =>
        \A t \in Positions :
            LET tk == tasks[t]
                cs == tk.calls
            IN  /\ (tk.stage = "mx" /\ tk.dns \in Negative) =>
                      (tk.pc = "ret" /\ ~tk.result /\ ~tk.connected)
                /\ (tk.pc = "done" /\ Len(cs) >= 2) =>
                      /\ cs[2].stage = "mx"
                      /\ cs[2].dns \in Negative =>
                            /\ tk.ret[2] = "No MX records found"
                            /\ ~tk.connected
                      /\ cs[2].dns = "answer" =>
                            tk.ret[2] # "No MX records found"
                      /\ \A i \in 1..Len(cs) :
                            (cs[i].stage = "conn" /\ cs[i].fault = "connect")
                                => tk.ret[2] = "Cannot connect to mail server"

\* an MX answer, then a refused connection
C5_Witness ==
    \E t \in Positions :
        /\ variant = "emailv8"
        /\ tasks[t].pc = "done"
        /\ Len(tasks[t].calls) = 3
        /\ tasks[t].calls[2].dns = "answer"
        /\ tasks[t].calls[3].fault = "connect"
        /\ tasks[t].ret[2] = "Cannot connect to mail server"

\* C6: in the pooled scripts validate_emails neither raises nor is left by
\* an exception, whatever happens to a run.
C6_BatchNeverRaises ==
    variant \in Pooled => bpc \notin {"unwinding", "raised"}

\* check_catch_all has returned and validate_email has its value
CatchAllReturned(t) == tasks[t].stage = "ca" /\ tasks[t].pc = "ret"

\* the address at position t is at gmail.com, in whatever case it is written
IsGmail(t) == lower(split_at_1(email_list[t])) = GMAIL_COM

C8_FalseExactlyOn550 ==
    \A t \in Positions :
        (variant \in HasCatchAll /\ IsGmail(t) /\ CatchAllReturned(t)) =>
            (~tasks[t].result <=> tasks[t].code = 550)

\* C8, amended: for gmail.com check_catch_all of emailv8.py, eemail.py and
\* part_000 returns True exactly when RCPT TO was answered with a code
\* other than 550 and nothing raised up to the end of the session; it
\* returns False on 550 and whenever the probe ends without a reply code.
\* emailv12.py treats gmail.com as any domain: True exactly on 250.
C8_GmailTrueOnNon550Reply ==
    \A t \in Positions :
        (variant \in HasCatchAll /\ IsGmail(t) /\ CatchAllReturned(t)) =>
            (tasks[t].result <=>
                /\ tasks[t].fault = "none"
                /\ IF variant = "emailv12"
                   THEN tasks[t].code = 250
                   ELSE tasks[t].code \notin {550, NoReply})

\* gmail.com answers the made-up recipient with 251: reported as catch-all
C8_Witness ==
    \E t \in Positions :
        /\ variant = "emailv8"
        /\ IsGmail(t)
        /\ CatchAllReturned(t)
        /\ tasks[t].result
        /\ tasks[t].code = 251

\* C9: a negative answer to the lookup of check_mail_server is the last
\* thing the call does: it has returned False, without a further lookup
\* and without a backoff sleep.
C9_NegativeAnswerNotRetried ==
    \A t \in Positions :
        (tasks[t].stage = "mx" /\ tasks[t].dns \in Negative) =>
            (tasks[t].pc = "ret" /\ ~tasks[t].result)

\* the scripts whose check_mail_server retries
Retrying == {"part_000", "emailv13"}

\* C10: one call of the retrying check_mail_server makes at most 3 lookups;
\* a lookup that returns an answer is its last (it returns True); after a
\* third lookup that timed out it has returned False; a further lookup or
\* sleep is pending only while fewer than 3 lookups were made.
C10_AtMostThreeLookups ==
    variant \in Retrying =>
        \A t \in Positions :
            LET tk == tasks[t]
            IN  tk.stage = "mx" =>
                    /\ tk.lookups <= 3
                    /\ tk.dns = "answer" => (tk.pc = "ret" /\ tk.result)
                    /\ (tk.lookups = 3 /\ tk.dns = "Timeout") =>
                           (tk.pc = "ret" /\ ~tk.result)
                    /\ tk.pc \in {"lookup", "sleep"} => tk.lookups < 3

\* the third lookup of a call timed out as well
C10_Witness ==
    \E t \in Positions :
        /\ variant \in Retrying
        /\ tasks[t].stage = "mx"
        /\ tasks[t].lookups = 3
        /\ tasks[t].dns = "Timeout"
        /\ tasks[t].pc = "ret"
        /\ ~tasks[t].result

\* C11: a call of check_connection or check_catch_all starts at most one
\* SMTP session: after a probe that failed, the stage makes no second one.
C11_OneSessionPerStage ==
    \A t \in Positions : tasks[t].sessions <= 1

\* check_catch_all returned True in the run at position t, which has ended
CatchAllReported(t) ==
    /\ tasks[t].pc = "done"
    /\ \E i \in 1..Len(tasks[t].calls) :
          tasks[t].calls[i].stage = "ca" /\ tasks[t].calls[i].value

\* C12 as stated: in every script that has the catch-all stage, a run whose
\* check_catch_all returned True ends with Domain has catch-all enabled.
C12_CatchAllNeverValid ==
    \A t \in Positions :
        (variant \in HasCatchAll /\ CatchAllReported(t)) =>
            tasks[t].ret[2] = "Domain has catch-all enabled"

\* C12, amended: in emailv8.py, eemail.py and part_000 a run ends with
\* Domain has catch-all enabled exactly when its check_catch_all returned
\* True, and so never with the valid status then; in emailv12.py a run whose
\* check_catch_all returned True ends with Valid, and none ends with Domain
\* has catch-all enabled.
C12_CatchAllStatusPerScript ==
    \A t \in Positions :
        tasks[t].pc = "done" =>
            /\ variant \in FourStages =>
                  (CatchAllReported(t) <=>
                      tasks[t].ret[2] = "Domain has catch-all enabled")
            /\ variant = "emailv12" =>
                  /\ CatchAllReported(t) => tasks[t].ret[2] = "Valid"
                  /\ tasks[t].ret[2] # "Domain has catch-all enabled"
            /\ variant = "emailv13" =>
                  tasks[t].ret[2] # "Domain has catch-all enabled"

\* emailv12.py returned Valid because the domain accepts every recipient,
\* without probing the real one
C12_Witness ==
    \E t \in Positions :
        /\ variant = "emailv12"
        /\ CatchAllReported(t)
        /\ tasks[t].ret[2] = "Valid"
        /\ tasks[t].trace = <<"syntax", "mx", "ca">>

\* C13: an SMTP session is open only while check_connection or
\* check_catch_all is between its connection and the end of its session:
\* when the function has returned (on a reply it accepts, on one it does
\* not, after a failure at the greeting, at MAIL FROM, at RCPT TO or at
\* QUIT), when it is about to look up or connect again, and when
\* validate_email has ended, no session it opened is still open.
C13_NoSessionLeftOpen ==
    \A t \in Positions :
        tasks[t].sess = "open" => tasks[t].pc \in {"helo", "mail", "rcpt", "quit"}

\* check_catch_all of eemail.py returned after RCPT TO failed on a session
\* it had opened
C13_Witness ==
    \E t \in Positions :
        /\ variant = "eemail"
        /\ tasks[t].stage = "ca"
        /\ tasks[t].pc = "ret"
        /\ tasks[t].fault = "rcpt"
        /\ tasks[t].sessions = 1
        /\ tasks[t].sess = "dropped"

\* a domain made of nonempty labels over [A-Za-z0-9-] separated by single
\* dots
WellFormedDomain(d) ==
    /\ Len(d) > 0
    /\ \A i \in 1..Len(d) : d[i] \in LabelClass \cup {"."}
    /\ d[1] # "."
    /\ d[Len(d)] # "."
    /\ \A i \in 1..(Len(d) - 1) : ~(d[i] = "." /\ d[i + 1] = ".")

\* a nonempty local part over [A-Za-z0-9_.+-], one @, a well-formed domain,
\* and nothing else
WellFormedAddress(email) ==
    /\ Cardinality(AtPositions(email)) = 1
    /\ \E at \in AtPositions(email) :
          /\ at > 1
          /\ AllIn(email, 1, at - 1, LocalClass)
          /\ WellFormedDomain(SubSeq(email, at + 1, Len(email)))

\* C14: a string for which check_syntax returned True in validate_email is
\* a well-formed address, so that the domain validate_email splits off it
\* is a well-formed domain.
C14_AcceptedIsWellFormed ==
    \A t \in Positions :
        (Len(tasks[t].calls) >= 1 /\ tasks[t].calls[1].value) =>
            /\ WellFormedAddress(email_list[t])
            /\ WellFormedDomain(split_at_1(email_list[t]))

\* C15: in the pooled scripts the reports printed so far are 1, 2, ..., one
\* per outcome collected so far and never more than N of them, and once the
\* call of validate_emails has ended the last report is N.
C15_ProgressCountsToN ==
    variant \in Pooled =>
        /\ \A i \in 1..Len(progress) : progress[i] = i
        /\ Len(progress) = Len(results)
        /\ Len(progress) <= N
        /\ bpc \in {"returned", "raised"} => Len(progress) = N

\* C16: no run of validate_email is ended by an exception, whatever the
\* lookups and the SMTP sessions of its stage functions ran into.
C16_NoExceptionLeavesAStage ==
    \A t \in Positions : tasks[t].pc # "raised"

\* C17: a call of check_connection or check_catch_all whose MAIL FROM was
\* answered with a code that is not 2xx returns False, whatever RCPT TO was
\* answered then.
C17_RefusedMailFromFails ==
    \A t \in Positions :
        (/\ tasks[t].pc = "ret"
         /\ tasks[t].stage \in {"conn", "ca"}
         /\ tasks[t].mail \notin {NoReply, 250}) => ~tasks[t].result

\* check_connection has returned and validate_email has its value
ConnectionReturned(t) == tasks[t].stage = "conn" /\ tasks[t].pc = "ret"

\* the last stage that returned in the run at position t
LastCall(t) == tasks[t].calls[Len(tasks[t].calls)]

\* C18 as stated: check_connection returns True exactly when RCPT TO for the
\* address was answered 250 or 251.
C18_PassesExactlyOn250Or251 ==
    \A t \in Positions :
        ConnectionReturned(t) =>
            (tasks[t].result <=> tasks[t].code \in {250, 251})

\* C18, amended: check_connection of emailv13.py returns True exactly when,
\* on the session of its last attempt, the greeting, MAIL FROM and RCPT TO
\* were answered, the RCPT reply is 250 or 251 and the session ended without
\* an exception, and emailv13.py returns Valid only then; that of emailv12.py
\* likewise with 250 alone, and emailv12.py returns Valid only then or when
\* check_catch_all returned True; that of emailv8.py, eemail.py and part_000
\* sends neither MAIL FROM nor RCPT TO and returns True exactly when the
\* session ended without an exception.
C18_PassesPerScript ==
    \A t \in Positions :
        LET tk == tasks[t]
        IN  /\ ConnectionReturned(t) =>
                  CASE variant = "emailv13" ->
                          tk.result <=> /\ tk.fault = "none"
                                        /\ tk.helo = 250
                                        /\ tk.mail # NoReply
                                        /\ tk.code \in {250, 251}
                    [] variant = "emailv12" ->
                          tk.result <=> /\ tk.fault = "none"
                                        /\ tk.helo = 250
                                        /\ tk.mail # NoReply
                                        /\ tk.code = 250
                    [] OTHER ->
                          /\ tk.mail = NoReply
                          /\ tk.code = NoReply
                          /\ tk.result <=> tk.fault = "none"
            /\ (tk.pc = "done" /\ tk.ret[2] = ValidStatus(variant)) =>
                  CASE variant = "emailv13" ->
                          /\ LastCall(t).stage = "conn"
                          /\ LastCall(t).code \in {250, 251}
                    [] variant = "emailv12" ->
                          \/ LastCall(t).stage = "ca" /\ LastCall(t).value
                          \/ LastCall(t).stage = "conn" /\ LastCall(t).code = 250
                    [] OTHER ->
                          /\ tk.calls[3].stage = "conn"
                          /\ tk.calls[3].value
                          /\ tk.calls[3].code = NoReply

\* emailv13.py took 251 for the real recipient as a pass
C18_Witness ==
    \E t \in Positions :
        /\ variant = "emailv13"
        /\ ConnectionReturned(t)
        /\ tasks[t].result
        /\ tasks[t].code = 251

\* C19: the exchanger check_connection and check_catch_all connect to is
\* the record of the answer with the lowest preference value.
C19_LowestPreferenceExchanger ==
    \A t \in Positions :
        tasks[t].mx_record # "none" =>
            \E i \in 1..Len(tasks[t].mx_records) :
                /\ tasks[t].mx_records[i].exchange = tasks[t].mx_record
                /\ \A j \in 1..Len(tasks[t].mx_records) :
                      tasks[t].mx_records[i].preference
                          <= tasks[t].mx_records[j].preference

\* the positions whose validate_email is being run by a pool thread
InProgress == {t \in Positions : Running(tasks[t])}

\* at most max_workers runs are in progress, each on a pool thread of its
\* own, and only runs in progress hold a thread
PoolBound ==
    /\ Cardinality(InProgress) <= max_workers
    /\ \A t \in InProgress : tasks[t].worker \in 1..max_workers
    /\ \A t, u \in InProgress : t # u => tasks[t].worker # tasks[u].worker
    /\ \A t \in Positions \ InProgress : tasks[t].worker = 0

\* a run in progress stays on its thread until it has ended, and a position
\* whose run has ended is not run again
RunsToCompletion ==
    \A t \in Positions :
        /\ Running(tasks[t]) =>
              \/ Finished(tasks'[t])
              \/ Running(tasks'[t]) /\ tasks'[t].worker = tasks[t].worker
        /\ Finished(tasks[t]) =>
              (Finished(tasks'[t]) /\ tasks'[t].ret = tasks[t].ret)

\* C20: in the pooled scripts, at every moment the runs of validate_email
\* in progress are at most max_workers and each has a pool thread of its
\* own; a thread stays with its run until the run has ended, and no position
\* is run a second time.
C20_BoundedPool ==
    /\ []((variant \in Pooled) => PoolBound)
    /\ [][(variant \in Pooled) => RunsToCompletion]_vars

\* a pool of one thread: one run in progress, the next address waiting
C20_Witness ==
    \E t, u \in Positions :
        /\ variant \in Pooled
        /\ max_workers = 1
        /\ Running(tasks[t])
        /\ tasks[u].pc = "queued"

\* the state of a run without what the pool keeps about it
Alone(tk) == [tk EXCEPT !.worker = 0, !.collected = FALSE]

\* the pairs validate_email(email) can return when it is run by itself
SoloOutcomes(v, email) == {end.ret : end \in {e \in RunEndsOf[v][email] : e.pc = "done"}}

\* what a step of a batch does to the run at position t: nothing; or the
\* run is in progress and the step is one that validate_email run by itself
\* takes from the same state, on the answer the environment gave; or the run
\* is not in progress and only its place in the pool changes
StepsAsAlone(t) ==
    \/ tasks'[t] = tasks[t]
    \/ /\ Running(tasks[t])
       /\ Alone(tasks'[t]) \in
              Successors(variant, email_list[t], Alone(tasks[t]))
    \/ /\ ~Running(tasks[t])
       /\ [tasks'[t] EXCEPT !.pc = tasks[t].pc, !.worker = tasks[t].worker,
                            !.collected = tasks[t].collected] = tasks[t]

\* every outcome in results is the one the run of its position returned,
\* and one that validate_email returns for that address run by itself
OutcomesAsAlone ==
    /\ \A t \in Positions :
          tasks[t].pc = "done" =>
              tasks[t].ret \in SoloOutcomes(variant, email_list[t])
    /\ variant \in Pooled =>
          \A i \in 1..Len(results) :
              \E t \in Collected :
                  /\ tasks[t].pc = "done"
                  /\ results[i] = tasks[t].ret
                  /\ results[i][1] = email_list[t]

\* C21: in a batch, under every interleaving, each run advances exactly as
\* validate_email run by itself does on the same answers, no step of one run
\* changes anything of another run (also of one for the same domain), and
\* the outcomes validate_emails holds are those the runs returned.
C21_RunsAreIndependent ==
    /\ []OutcomesAsAlone
    /\ [][\A t \in Positions : StepsAsAlone(t)]_vars

\* two runs for the same domain, both inside an SMTP session, the second
\* already further than the first
C21_Witness ==
    /\ variant \in Pooled
    /\ email_list[1] = email_list[2]
    /\ tasks[1].pc = "helo"
    /\ tasks[2].pc = "quit"
    /\ tasks[1].stage = "conn"
    /\ tasks[2].stage = "conn"

\* C22: when no call blocks for ever, validate_emails of a pooled script
\* eventually returns, every run having ended with a status.
C22_EventuallyReturns ==
    (variant \in Pooled) =>
        <>(bpc = "returned" /\ \A t \in Positions : tasks[t].pc = "done")

====
